---- MODULE Spec2Model ----
(***************************************************************************)
(* A model of the literal-substring grep of src/main.rs: argument parsing, *)
(* path resolution, the per-file line scan with its output formatting, the *)
(* matcher find_matches_in_line and the highlighter colorize_hits.         *)
(*                                                                         *)
(* Strings are sequences of bytes (numbers 0..255), so that case folding,  *)
(* slicing by byte offset and the formatting of a line number are what the *)
(* code makes them.  A byte offset of the code is 0-based; Slice converts. *)
(***************************************************************************)
EXTENDS Naturals, Sequences, FiniteSets, TLC

VARIABLES
    args,                 \* env::args().skip(1): the argument tokens
    disk,                 \* the file system the run sees: path -> node
    pc,                   \* position of main
    config,               \* the Config of main
    files_to_search,      \* the list collect_files returned
    file_idx,             \* position of main's for loop in files_to_search
    reader,               \* the lines the open file's reader has yet to yield
    current_line_number,  \* search_file's counter
    stdout,               \* the lines printed so far, oldest first
    emitted,              \* for each line search_file printed: its file, number
    call,                 \* a pure function's invocation: its inputs
    ret                   \* ... and what it returned

vars == <<args, disk, pc, config, files_to_search, file_idx, reader,
          current_line_number, stdout, emitted, call, ret>>

run_vars == <<args, disk, pc, config, files_to_search, file_idx, reader,
              current_line_number, stdout, emitted>>

(***************************************************************************)
(* Bounds of the model.                                                    *)
(***************************************************************************)
MaxArgs == 4        \* argument tokens of a run of SpecArgs
MaxLines == 3       \* lines of a scanned file of Spec
MaxTextLen == 4     \* bytes of a line handed to the matcher or highlighter
MaxPatLen == 3      \* bytes of a pattern handed to the matcher
MaxRanges == 2      \* match ranges handed to the highlighter

(***************************************************************************)
(* Bytes and strings.                                                      *)
(***************************************************************************)
\* All strings over the bytes of `alphabet` of length 0..n.
RECURSIVE StringsUpTo(_, _)
StringsUpTo(alphabet, n) ==
    IF n = 0 THEN {<<>>}
    ELSE LET shorter == StringsUpTo(alphabet, n - 1)
         IN  shorter \cup {Append(s, b) : s \in {t \in shorter : Len(t) = n - 1},
                                          b \in alphabet}

\* &s[from..to] of Rust: the bytes at the 0-based offsets from..to-1.
Slice(s, from, to) == SubSeq(s, from + 1, to)

\* s.starts_with(prefix)
StartsWith(s, prefix) ==
    /\ Len(prefix) <= Len(s)
    /\ SubSeq(s, 1, Len(prefix)) = prefix

\* u8::to_ascii_lowercase: 'A'..'Z' (65..90) become 'a'..'z', others stay.
byte_to_ascii_lowercase(b) == IF b \in 65..90 THEN b + 32 ELSE b

\* str::to_ascii_lowercase, byte by byte.
to_ascii_lowercase(s) == [i \in 1..Len(s) |-> byte_to_ascii_lowercase(s[i])]

\* The decimal digits of n as bytes, as "{}" formats a usize.
RECURSIVE Decimal(_)
Decimal(n) ==
    IF n < 10 THEN <<48 + n>>
    ELSE Append(Decimal(n \div 10), 48 + (n % 10))

(***************************************************************************)
(* find_matches_in_line (main.rs 204-246).                                 *)
(***************************************************************************)
\* scan_from with line 238 as "current_position += 1": a match does not
\* consume its length.
RECURSIVE scan_from_overlapping(_, _, _, _)
scan_from_overlapping(text_bytes, pattern_bytes, current_position, match_positions) ==
    LET pattern_length == Len(pattern_bytes) IN
    IF current_position + pattern_length <= Len(text_bytes)
    THEN IF Slice(text_bytes, current_position,
                  current_position + pattern_length) = pattern_bytes
         THEN scan_from_overlapping(text_bytes, pattern_bytes,
                                    current_position + 1,
                                    Append(match_positions,
                                           <<current_position,
                                             current_position + pattern_length>>))
         ELSE scan_from_overlapping(text_bytes, pattern_bytes,
                                    current_position + 1, match_positions)
    ELSE match_positions

\* The while loop of lines 229-243, from current_position with the matches
\* pushed so far.
RECURSIVE scan_from(_, _, _, _)
scan_from(text_bytes, pattern_bytes, current_position, match_positions) ==
    LET pattern_length == Len(pattern_bytes) IN
    IF current_position + pattern_length <= Len(text_bytes)
    THEN IF Slice(text_bytes, current_position,
                  current_position + pattern_length) = pattern_bytes
         THEN scan_from(text_bytes, pattern_bytes,
                        current_position + pattern_length,
                        Append(match_positions,
                               <<current_position,
                                 current_position + pattern_length>>))
         ELSE scan_from(text_bytes, pattern_bytes, current_position + 1,
                        match_positions)
    ELSE match_positions

\* find_matches_in_line with line 212 folding the line alone.
find_matches_pattern_unfolded(line_text, search_pattern, ignore_case) ==
    IF search_pattern = <<>> THEN <<>>
    ELSE LET search_text == IF ignore_case THEN to_ascii_lowercase(line_text)
                            ELSE line_text
         IN  IF Len(search_pattern) > Len(search_text) THEN <<>>
             ELSE scan_from(search_text, search_pattern, 0, <<>>)

find_matches_in_line(line_text, search_pattern, ignore_case) ==
    IF search_pattern = <<>> THEN <<>>
    ELSE LET search_text == IF ignore_case THEN to_ascii_lowercase(line_text)
                            ELSE line_text
             pattern_to_find == IF ignore_case
                                THEN to_ascii_lowercase(search_pattern)
                                ELSE search_pattern
         IN  IF pattern_to_find = <<>> \/ Len(pattern_to_find) > Len(search_text)
             THEN <<>>
             ELSE scan_from(search_text, pattern_to_find, 0, <<>>)

(***************************************************************************)
(* colorize_hits (main.rs 249-279).                                        *)
(***************************************************************************)
\* The escape sequences of colored's red(): ESC [ 3 1 m ... ESC [ 0 m.
RedOn == <<27, 91, 51, 49, 109>>
RedOff == <<27, 91, 48, 109>>

\* matched_text_segment.red().to_string()
red(text) == RedOn \o text \o RedOff

\* The for loop of lines 259-271 over match_ranges[i..], then lines 274-277.
RECURSIVE colorize_from(_, _, _, _, _)
colorize_from(original_line, match_ranges, i, colored_result, last_processed_position) ==
    IF i <= Len(match_ranges)
    THEN LET match_start == match_ranges[i][1]
             match_end == match_ranges[i][2]
             with_before ==
                 IF match_start > last_processed_position
                 THEN colored_result
                      \o Slice(original_line, last_processed_position, match_start)
                 ELSE colored_result
         IN  colorize_from(original_line, match_ranges, i + 1,
                           with_before
                           \o red(Slice(original_line, match_start, match_end)),
                           match_end)
    ELSE IF last_processed_position < Len(original_line)
         THEN colored_result
              \o Slice(original_line, last_processed_position, Len(original_line))
         ELSE colored_result

\* colorize_hits slicing the folded text instead of the original line.
colorize_hits_of_folded(original_line, match_ranges) ==
    IF match_ranges = <<>> THEN original_line
    ELSE colorize_from(to_ascii_lowercase(original_line), match_ranges, 1, <<>>, 0)

colorize_hits(original_line, match_ranges) ==
    IF match_ranges = <<>> THEN original_line
    ELSE colorize_from(original_line, match_ranges, 1, <<>>, 0)

(***************************************************************************)
(* Config and parse_arguments (main.rs 8-102).                             *)
(***************************************************************************)
\* The argument tokens the code compares with: "-h" "--help" "-i" "-n" "-v"
\* "-r" "-f" "-c".
FlagH == <<45, 104>>
FlagHelp == <<45, 45, 104, 101, 108, 112>>
FlagI == <<45, 105>>
FlagN == <<45, 110>>
FlagV == <<45, 118>>
FlagR == <<45, 114>>
FlagF == <<45, 102>>
FlagC == <<45, 99>>

\* The text print_help prints (main.rs 22-31), one println.
UsageText ==
 <<
    85, 115, 97, 103, 101, 58, 32, 103, 114, 101, 112, 32, 91, 79, 80, 84,
    73, 79, 78, 83, 93, 32, 60, 112, 97, 116, 116, 101, 114, 110, 62, 32,
    60, 102, 105, 108, 101, 115, 46, 46, 46, 62, 10, 10, 79, 112, 116, 105,
    111, 110, 115, 58, 10, 45, 105, 32, 32, 32, 32, 32, 32, 32, 32, 32, 32,
    32, 32, 32, 32, 32, 32, 67, 97, 115, 101, 45, 105, 110, 115, 101, 110,
    115, 105, 116, 105, 118, 101, 32, 115, 101, 97, 114, 99, 104, 10, 45,
    110, 32, 32, 32, 32, 32, 32, 32, 32, 32, 32, 32, 32, 32, 32, 32, 32,
    80, 114, 105, 110, 116, 32, 108, 105, 110, 101, 32, 110, 117, 109, 98,
    101, 114, 115, 10, 45, 118, 32, 32, 32, 32, 32, 32, 32, 32, 32, 32, 32,
    32, 32, 32, 32, 32, 73, 110, 118, 101, 114, 116, 32, 109, 97, 116, 99,
    104, 32, 40, 101, 120, 99, 108, 117, 100, 101, 32, 108, 105, 110, 101,
    115, 32, 116, 104, 97, 116, 32, 109, 97, 116, 99, 104, 32, 116, 104,
    101, 32, 112, 97, 116, 116, 101, 114, 110, 41, 10, 45, 114, 32, 32, 32,
    32, 32, 32, 32, 32, 32, 32, 32, 32, 32, 32, 32, 32, 82, 101, 99, 117,
    114, 115, 105, 118, 101, 32, 100, 105, 114, 101, 99, 116, 111, 114,
    121, 32, 115, 101, 97, 114, 99, 104, 10, 45, 102, 32, 32, 32, 32, 32,
    32, 32, 32, 32, 32, 32, 32, 32, 32, 32, 32, 80, 114, 105, 110, 116, 32,
    102, 105, 108, 101, 110, 97, 109, 101, 115, 10, 45, 99, 32, 32, 32, 32,
    32, 32, 32, 32, 32, 32, 32, 32, 32, 32, 32, 32, 69, 110, 97, 98, 108,
    101, 32, 99, 111, 108, 111, 114, 101, 100, 32, 111, 117, 116, 112, 117,
    116, 10, 45, 104, 44, 32, 45, 45, 104, 101, 108, 112, 32, 32, 32, 32,
    32, 32, 32, 32, 83, 104, 111, 119, 32, 104, 101, 108, 112, 32, 105,
    110, 102, 111, 114, 109, 97, 116, 105, 111, 110
 >>

print_help == <<UsageText>>

\* The Config parse_arguments starts from (main.rs 39-48).
InitialConfig ==
    [pattern |-> <<>>, files |-> <<>>, case_insensitive |-> FALSE,
     line_numbers |-> FALSE, invert_match |-> FALSE,
     recursive_directory |-> FALSE, print_filenames |-> FALSE,
     colored_output |-> FALSE]

\* What parse_arguments hands back: Ok(config) or Err(()), with what it printed.
ParseOk(user_config) == [ok |-> TRUE, config |-> user_config, printed |-> <<>>]
ParseErr == [ok |-> FALSE, config |-> InitialConfig, printed |-> print_help]

\* take_positional with line 87 outside the else: the pattern is pushed to
\* the files as well.
take_positional_pushes_pattern(user_config, found_search_pattern, current_argument) ==
    IF ~found_search_pattern
    THEN [user_config EXCEPT !.pattern = current_argument,
                             !.files = Append(@, current_argument)]
    ELSE [user_config EXCEPT !.files = Append(@, current_argument)]

\* Lines 83-88: a token that is no flag is the pattern, or a file after it.
take_positional(user_config, found_search_pattern, current_argument) ==
    IF ~found_search_pattern
    THEN [user_config EXCEPT !.pattern = current_argument]
    ELSE [user_config EXCEPT !.files = Append(@, current_argument)]

\* finish_arguments without the check of lines 96-99.
finish_arguments_without_files_check(user_config, found_search_pattern) ==
    IF ~found_search_pattern THEN ParseErr
    ELSE ParseOk(user_config)

\* Lines 91-101: after the last token.
finish_arguments(user_config, found_search_pattern) ==
    IF ~found_search_pattern THEN ParseErr
    ELSE IF user_config.files = <<>> THEN ParseErr
    ELSE ParseOk(user_config)

\* The while loop of lines 52-89 over the tokens left, then lines 91-101.
RECURSIVE parse_from(_, _, _)
parse_from(arguments, user_config, found_search_pattern) ==
    IF arguments = <<>>
    THEN finish_arguments(user_config, found_search_pattern)
    ELSE LET current_argument == Head(arguments)
             rest == Tail(arguments)
         IN  IF current_argument = FlagH \/ current_argument = FlagHelp
             THEN ParseErr
             ELSE IF current_argument = FlagI
             THEN parse_from(rest, [user_config EXCEPT !.case_insensitive = TRUE],
                             found_search_pattern)
             ELSE IF current_argument = FlagN
             THEN parse_from(rest, [user_config EXCEPT !.line_numbers = TRUE],
                             found_search_pattern)
             ELSE IF current_argument = FlagV
             THEN parse_from(rest, [user_config EXCEPT !.invert_match = TRUE],
                             found_search_pattern)
             ELSE IF current_argument = FlagR
             THEN parse_from(rest,
                             [user_config EXCEPT !.recursive_directory = TRUE],
                             found_search_pattern)
             ELSE IF current_argument = FlagF
             THEN parse_from(rest, [user_config EXCEPT !.print_filenames = TRUE],
                             found_search_pattern)
             ELSE IF current_argument = FlagC
             THEN parse_from(rest, [user_config EXCEPT !.colored_output = TRUE],
                             found_search_pattern)
             ELSE parse_from(rest,
                             take_positional(user_config, found_search_pattern,
                                             current_argument),
                             TRUE)

parse_arguments(arguments) == parse_from(arguments, InitialConfig, FALSE)

(***************************************************************************)
(* The file system, is_junk_file and collect_files (main.rs 106-152).      *)
(***************************************************************************)
\* A node of the disk: a regular file (whether File::open succeeds, and what
\* reader.lines() yields: Ok(text) or Err per line) or a directory (its
\* entries' paths, in the order WalkDir meets them).  A path outside the
\* disk's domain does not exist.
FileNode(openable, content) ==
    [kind |-> "file", openable |-> openable, content |-> content,
     entries |-> <<>>]
DirNode(entries) ==
    [kind |-> "dir", openable |-> FALSE, content |-> <<>>, entries |-> entries]

\* One item of reader.lines(): Ok(line) with its terminator stripped, or Err.
OkLine(text) == [ok |-> TRUE, text |-> text]
ErrLine == [ok |-> FALSE, text |-> <<>>]

exists(fs, path) == path \in DOMAIN fs
is_file(fs, path) == exists(fs, path) /\ fs[path].kind = "file"
is_dir(fs, path) == exists(fs, path) /\ fs[path].kind = "dir"

\* Path::file_name: the component after the last '/' (47).
RECURSIVE file_name(_)
file_name(path) ==
    IF \E i \in 1..Len(path) : path[i] = 47
    THEN file_name(Tail(path))
    ELSE path

\* "._" and ".DS_Store"
DotUnderscore == <<46, 95>>
DSStore == <<46, 68, 83, 95, 83, 116, 111, 114, 101>>

is_junk_file(file_path) ==
    LET file_name_str == file_name(file_path)
    IN  StartsWith(file_name_str, DotUnderscore) \/ file_name_str = DSStore

\* WalkDir::new(path): the directory itself, then each entry's walk, in order.
RECURSIVE walk_dir(_, _)
RECURSIVE walk_entries(_, _)
walk_dir(fs, path) ==
    IF is_dir(fs, path) THEN <<path>> \o walk_entries(fs, fs[path].entries)
    ELSE <<path>>
walk_entries(fs, entries) ==
    IF entries = <<>> THEN <<>>
    ELSE walk_dir(fs, Head(entries)) \o walk_entries(fs, Tail(entries))

\* Lines 118-123: the walked entries that are files and not junk.
RECURSIVE keep_regular(_, _)
keep_regular(fs, walked) ==
    IF walked = <<>> THEN <<>>
    ELSE LET file_path == Head(walked)
         IN  (IF is_file(fs, file_path) /\ ~is_junk_file(file_path)
              THEN <<file_path>> ELSE <<>>)
             \o keep_regular(fs, Tail(walked))

\* Lines 110-131: what one input path adds to file_list.
collect_one(fs, path, is_recursive_search) ==
    IF is_file(fs, path)
    THEN IF ~is_junk_file(path) THEN <<path>> ELSE <<>>
    ELSE IF is_dir(fs, path)
    THEN IF is_recursive_search THEN keep_regular(fs, walk_dir(fs, path))
         ELSE <<>>
    ELSE IF exists(fs, path) /\ is_file(fs, path) /\ ~is_junk_file(path)
    THEN <<path>>
    ELSE <<>>

RECURSIVE collect_files(_, _, _)
collect_files(fs, input_paths, is_recursive_search) ==
    IF input_paths = <<>> THEN <<>>
    ELSE collect_one(fs, Head(input_paths), is_recursive_search)
         \o collect_files(fs, Tail(input_paths), is_recursive_search)

(***************************************************************************)
(* search_file's loop body (main.rs 165-197).                              *)
(***************************************************************************)
\* ": "
ColonSpace == <<58, 32>>

\* should_print_line without the branch of lines 167-169.
should_print_line_never_inverted(matches_found, invert_match) ==
    matches_found # <<>>

\* Lines 167-173.
should_print_line(matches_found, invert_match) ==
    IF invert_match THEN matches_found = <<>> ELSE matches_found # <<>>

\* Lines 177-182.
text_to_print(line_content, matches_found, cfg) ==
    IF cfg.colored_output /\ matches_found # <<>>
    THEN colorize_hits(line_content, matches_found)
    ELSE line_content

\* format_line with the tests of lines 184 and 187 in the other order: the
\* file name alone wins over the file name with the line number.
format_line_filename_first(file_path, line_number, text, cfg) ==
    IF cfg.print_filenames THEN file_path \o ColonSpace \o text
    ELSE IF cfg.print_filenames /\ cfg.line_numbers
    THEN file_path \o ColonSpace \o Decimal(line_number) \o ColonSpace \o text
    ELSE IF cfg.line_numbers THEN Decimal(line_number) \o ColonSpace \o text
    ELSE text

\* Lines 184-196: the string println! writes.
format_line(file_path, line_number, text, cfg) ==
    IF cfg.print_filenames /\ cfg.line_numbers
    THEN file_path \o ColonSpace \o Decimal(line_number) \o ColonSpace \o text
    ELSE IF cfg.print_filenames THEN file_path \o ColonSpace \o text
    ELSE IF cfg.line_numbers THEN Decimal(line_number) \o ColonSpace \o text
    ELSE text

\* Lines 165-197 for one line: what is printed, <<>> or one string.
search_line(file_path, line_content, line_number, cfg) ==
    LET matches_found ==
            find_matches_in_line(line_content, cfg.pattern, cfg.case_insensitive)
    IN  IF should_print_line(matches_found, cfg.invert_match)
        THEN <<format_line(file_path, line_number,
                           text_to_print(line_content, matches_found, cfg), cfg)>>
        ELSE <<>>

(***************************************************************************)
(* main (main.rs 283-299) and search_file (main.rs 155-200), step by step. *)
(***************************************************************************)
\* The file main's loop is at.
current_file == files_to_search[file_idx]

\* The 1-based position in the current file of the line the reader yields
\* next.
next_position == Len(disk[current_file].content) - Len(reader) + 1

\* Line 284: parse_arguments; Err(_) => return.
ParseArguments ==
    /\ pc = "parse"
    /\ LET parsed == parse_arguments(args)
       IN  /\ stdout' = stdout \o parsed.printed
           /\ config' = IF parsed.ok THEN parsed.config ELSE config
           /\ pc' = IF parsed.ok THEN "collect" ELSE "done"
    /\ UNCHANGED <<args, disk, files_to_search, file_idx, reader,
                   current_line_number, emitted, call, ret>>

\* Line 292.
CollectFiles ==
    /\ pc = "collect"
    /\ files_to_search' =
           collect_files(disk, config.files, config.recursive_directory)
    /\ file_idx' = 1
    /\ pc' = "search"
    /\ UNCHANGED <<args, disk, config, reader, current_line_number, stdout,
                   emitted, call, ret>>

\* OpenFile with the counter of line 158 kept from the file before.
OpenFileKeepsCount ==
    /\ pc = "search"
    /\ file_idx <= Len(files_to_search)
    /\ disk[current_file].openable
    /\ reader' = disk[current_file].content
    /\ pc' = "lines"
    /\ UNCHANGED <<args, disk, config, files_to_search, file_idx,
                   current_line_number, stdout, emitted, call, ret>>

\* Lines 296-297 and 156-158: the next file opens.
OpenFile ==
    /\ pc = "search"
    /\ file_idx <= Len(files_to_search)
    /\ disk[current_file].openable
    /\ reader' = disk[current_file].content
    /\ current_line_number' = 0
    /\ pc' = "lines"
    /\ UNCHANGED <<args, disk, config, files_to_search, file_idx, stdout,
                   emitted, call, ret>>

\* OpenFails with main returning on the error instead of dropping it.
OpenFailsAborts ==
    /\ pc = "search"
    /\ file_idx <= Len(files_to_search)
    /\ ~disk[current_file].openable
    /\ pc' = "done"
    /\ UNCHANGED <<args, disk, config, files_to_search, file_idx, reader,
                   current_line_number, stdout, emitted, call, ret>>

\* Lines 296-297 and 156: File::open fails, search_file returns the error,
\* main drops it and goes on.
OpenFails ==
    /\ pc = "search"
    /\ file_idx <= Len(files_to_search)
    /\ ~disk[current_file].openable
    /\ file_idx' = file_idx + 1
    /\ UNCHANGED <<args, disk, pc, config, files_to_search, reader,
                   current_line_number, stdout, emitted, call, ret>>

\* Lines 160-198: one turn of the loop on a line that was read.
ScanLine ==
    /\ pc = "lines"
    /\ reader # <<>>
    /\ Head(reader).ok
    /\ current_line_number' = current_line_number + 1
    /\ LET printed == search_line(current_file, Head(reader).text,
                                  current_line_number + 1, config)
       IN  /\ stdout' = stdout \o printed
           /\ emitted' = IF printed = <<>> THEN emitted
                         ELSE Append(emitted, [file |-> file_idx,
                                               position |-> next_position])
    /\ reader' = Tail(reader)
    /\ UNCHANGED <<args, disk, pc, config, files_to_search, file_idx, call, ret>>

\* ReadFails with main returning on the error instead of dropping it.
ReadFailsAborts ==
    /\ pc = "lines"
    /\ reader # <<>>
    /\ ~Head(reader).ok
    /\ current_line_number' = current_line_number + 1
    /\ reader' = <<>>
    /\ pc' = "done"
    /\ UNCHANGED <<args, disk, config, files_to_search, file_idx, stdout,
                   emitted, call, ret>>

\* Lines 160-163: the read fails; search_file returns the error, main drops
\* it and goes on to the next file.
ReadFails ==
    /\ pc = "lines"
    /\ reader # <<>>
    /\ ~Head(reader).ok
    /\ current_line_number' = current_line_number + 1
    /\ reader' = <<>>
    /\ file_idx' = file_idx + 1
    /\ pc' = "search"
    /\ UNCHANGED <<args, disk, config, files_to_search, stdout, emitted,
                   call, ret>>

\* Lines 160 and 199: no line is left, search_file returns Ok(()).
EndOfFile ==
    /\ pc = "lines"
    /\ reader = <<>>
    /\ file_idx' = file_idx + 1
    /\ pc' = "search"
    /\ UNCHANGED <<args, disk, config, files_to_search, reader,
                   current_line_number, stdout, emitted, call, ret>>

\* Line 299: the loop is over, main returns.
MainReturn ==
    /\ pc = "search"
    /\ file_idx > Len(files_to_search)
    /\ pc' = "done"
    /\ UNCHANGED <<args, disk, config, files_to_search, file_idx, reader,
                   current_line_number, stdout, emitted, call, ret>>

Next ==
    \/ ParseArguments
    \/ CollectFiles
    \/ OpenFile
    \/ OpenFails
    \/ ScanLine
    \/ ReadFails
    \/ EndOfFile
    \/ MainReturn

(***************************************************************************)
(* The pure functions, applied to inputs drawn by Init.                    *)
(***************************************************************************)
NoCall == [fn |-> "none"]
NoReturn == [done |-> FALSE, value |-> <<>>]

CallFindMatches ==
    /\ call.fn = "find_matches_in_line"
    /\ ~ret.done
    /\ ret' = [done |-> TRUE,
               value |-> find_matches_in_line(call.line_text,
                                              call.search_pattern,
                                              call.ignore_case)]
    /\ UNCHANGED <<run_vars, call>>

CallColorizeHits ==
    /\ call.fn = "colorize_hits"
    /\ ~ret.done
    /\ ret' = [done |-> TRUE,
               value |-> colorize_hits(call.original_line, call.match_ranges)]
    /\ UNCHANGED <<run_vars, call>>

NextMatch == CallFindMatches

NextColor == CallColorizeHits

(***************************************************************************)
(* Initial states.                                                         *)
(***************************************************************************)
\* All sequences over S of length 0..n.
RECURSIVE SeqsUpTo(_, _)
SeqsUpTo(S, n) ==
    IF n = 0 THEN {<<>>}
    ELSE LET shorter == SeqsUpTo(S, n - 1)
         IN  shorter \cup {Append(s, x) : s \in {t \in shorter : Len(t) = n - 1},
                                          x \in S}

\* Paths of the disk: "f", "g", "d", "d/._j", "d/h".
PathF == <<102>>
PathG == <<103>>
PathD == <<100>>
PathDJunk == <<100, 47, 46, 95, 106>>
PathDH == <<100, 47, 104>>

\* Line texts of the scanned files: "Aab", "b".
TextAab == <<65, 97, 98>>
TextB == <<98>>
ScanTexts == {TextAab, TextB}
ScanLineResults == {OkLine(t) : t \in ScanTexts} \cup {ErrLine}

\* The disk with the given nodes for "f" and "g", beside the directory "d"
\* holding the junk file "d/._j" and the file "d/h", whose second line
\* cannot be read.
DiskWith(node_f, node_g) ==
    (PathF :> node_f) @@ (PathG :> node_g)
    @@ (PathD :> DirNode(<<PathDJunk, PathDH>>))
    @@ (PathDJunk :> FileNode(TRUE, <<OkLine(TextAab)>>))
    @@ (PathDH :> FileNode(TRUE, <<OkLine(TextAab), ErrLine, OkLine(TextAab)>>))

\* A file that opens, with at most n lines, or one that does not open.
FileNodes(n) ==
    {FileNode(TRUE, c) : c \in SeqsUpTo(ScanLineResults, n)}
    \cup {FileNode(FALSE, <<>>)}

InitRun ==
    /\ pc = "parse"
    /\ config = InitialConfig
    /\ files_to_search = <<>>
    /\ file_idx = 0
    /\ reader = <<>>
    /\ current_line_number = 0
    /\ stdout = <<>>
    /\ emitted = <<>>
    /\ call = NoCall
    /\ ret = NoReturn

\* The flags that bear on a scan, and the patterns "a" and "b".
ScanFlags == <<FlagI, FlagN, FlagV, FlagF, FlagC>>
ScanPatterns == {<<97>>, <<98>>}

\* The flags of `chosen` (a set of positions of ScanFlags), in order.
RECURSIVE flag_args(_, _)
flag_args(chosen, i) ==
    IF i > Len(ScanFlags) THEN <<>>
    ELSE (IF i \in chosen THEN <<ScanFlags[i]>> ELSE <<>>)
         \o flag_args(chosen, i + 1)

\* Runs "grep [flags] <pattern> f g" on every disk whose files f and g hold
\* at most MaxLines lines together.
Init ==
    /\ \E chosen \in SUBSET (1..Len(ScanFlags)), pattern \in ScanPatterns :
           args = flag_args(chosen, 1) \o <<pattern, PathF, PathG>>
    /\ \E node_f \in FileNodes(MaxLines) :
           \E node_g \in FileNodes(MaxLines - Len(node_f.content)) :
               disk = DiskWith(node_f, node_g)
    /\ InitRun

Spec == Init /\ [][Next]_vars

\* Argument tokens: the eight flags, "", "a", "f", "g", "d".
ArgTokens ==
    {FlagH, FlagHelp, FlagI, FlagN, FlagV, FlagR, FlagF, FlagC,
     <<>>, <<97>>, PathF, PathG, PathD}

\* Runs on every argument list of at most MaxArgs tokens, on one disk.
InitArgs ==
    /\ args \in SeqsUpTo(ArgTokens, MaxArgs)
    /\ disk = DiskWith(FileNode(TRUE, <<OkLine(TextAab), OkLine(TextB)>>),
                       FileNode(FALSE, <<>>))
    /\ InitRun

SpecArgs == InitArgs /\ [][Next]_vars

InitIdle ==
    /\ args = <<>>
    /\ disk = DiskWith(FileNode(FALSE, <<>>), FileNode(FALSE, <<>>))
    /\ pc = "done"
    /\ config = InitialConfig
    /\ files_to_search = <<>>
    /\ file_idx = 0
    /\ reader = <<>>
    /\ current_line_number = 0
    /\ stdout = <<>>
    /\ emitted = <<>>

\* Bytes of the lines and patterns handed to the pure functions: 'A' 'a' 'b'.
PureAlphabet == {65, 97, 98}

InitMatch ==
    /\ InitIdle
    /\ call \in [fn : {"find_matches_in_line"},
                 line_text : StringsUpTo(PureAlphabet, MaxTextLen),
                 search_pattern : StringsUpTo(PureAlphabet, MaxPatLen),
                 ignore_case : BOOLEAN]
    /\ ret = NoReturn

SpecMatch == InitMatch /\ [][NextMatch]_vars

\* A range within a line of n bytes: 0 <= start <= end <= n.
RangesIn(n) == {r \in (0..n) \X (0..n) : r[1] <= r[2]}

\* Increasing and non-overlapping: each range starts after the start and not
\* before the end of the one before it.
InOrder(ranges) ==
    \A i \in 1..(Len(ranges) - 1) :
        /\ ranges[i][2] <= ranges[i + 1][1]
        /\ ranges[i][1] < ranges[i + 1][1]

ValidRanges(n) == {r \in SeqsUpTo(RangesIn(n), MaxRanges) : InOrder(r)}

InitColor ==
    /\ InitIdle
    /\ \E line \in StringsUpTo(PureAlphabet, MaxTextLen) :
           call \in [fn : {"colorize_hits"}, original_line : {line},
                     match_ranges : ValidRanges(Len(line))]
    /\ ret = NoReturn

SpecColor == InitColor /\ [][NextColor]_vars

(***************************************************************************)
(* What the properties below speak of.                                     *)
(***************************************************************************)
\* s without its first n bytes.
Drop(s, n) == SubSeq(s, n + 1, Len(s))

\* s ends with suffix.
EndsWith(s, suffix) ==
    /\ Len(suffix) <= Len(s)
    /\ Drop(s, Len(s) - Len(suffix)) = suffix

\* The node of the i-th file of files_to_search.
NodeOf(i) == disk[files_to_search[i]]

\* The text of line k of the i-th file.
LineOf(i, k) == NodeOf(i).content[k].text

\* The position of the first line of `content` whose read fails, or one past
\* the last line when every read succeeds.
FirstFailure(content) ==
    IF \E k \in 1..Len(content) : ~content[k].ok
    THEN CHOOSE k \in 1..Len(content) :
             /\ ~content[k].ok
             /\ \A m \in 1..(k - 1) : content[m].ok
    ELSE Len(content) + 1

\* The scan of this file ends with an error: it does not open, or a read fails.
FailsToOpen(node) == ~node.openable
FailsAtLine(node) == node.openable /\ FirstFailure(node.content) <= Len(node.content)

\* How many lines of this file a complete scan gets through.
ReadableLines(node) ==
    IF node.openable THEN FirstFailure(node.content) - 1 ELSE 0

\* How many lines of the i-th file have been through the loop body so far.
LinesScanned(i) ==
    IF i < file_idx THEN ReadableLines(NodeOf(i))
    ELSE IF i = file_idx /\ pc = "lines"
    THEN Len(NodeOf(i).content) - Len(reader)
    ELSE 0

\* The positions of the lines of the i-th file printed so far.
EmittedPositions(i) ==
    {emitted[j].position : j \in {m \in 1..Len(emitted) : emitted[m].file = i}}

\* The spans the matcher returns for line k of the i-th file under the Config.
SpansOf(i, k) ==
    find_matches_in_line(LineOf(i, k), config.pattern, config.case_insensitive)

\* The positions among the first n lines of the i-th file that the Config
\* selects: those with a span, or with invert_match those without.
Selected(i, n) ==
    {k \in 1..n : IF config.invert_match THEN SpansOf(i, k) = <<>>
                  ELSE SpansOf(i, k) # <<>>}

\* parse_arguments returned a Config and main went on with it.
Scanning == pc \in {"collect", "search", "lines"} \/ (pc = "done" /\ file_idx > 0)

\* Every file of the list has been through main's loop.
LoopOver == file_idx = Len(files_to_search) + 1

\* The eight flag tokens, and the tokens of an argument list that are none.
FlagTokens == {FlagH, FlagHelp, FlagI, FlagN, FlagV, FlagR, FlagF, FlagC}
Positionals(arguments) == SelectSeq(arguments, LAMBDA t : t \notin FlagTokens)
AsksHelp(arguments) ==
    \E i \in 1..Len(arguments) : arguments[i] \in {FlagH, FlagHelp}

\* The output with the escape sequences of red() taken out.
RECURSIVE StripMarkers(_)
StripMarkers(s) ==
    IF s = <<>> THEN <<>>
    ELSE IF StartsWith(s, RedOn) THEN StripMarkers(Drop(s, Len(RedOn)))
    ELSE IF StartsWith(s, RedOff) THEN StripMarkers(Drop(s, Len(RedOff)))
    ELSE <<Head(s)>> \o StripMarkers(Tail(s))

\* The segments of the output between a RedOn and the RedOff after it, in
\* order; `inside` and `segment` are the scan's state, `found` its result.
RECURSIVE MarkedFrom(_, _, _, _)
MarkedFrom(s, inside, segment, found) ==
    IF s = <<>> THEN found
    ELSE IF StartsWith(s, RedOn)
    THEN MarkedFrom(Drop(s, Len(RedOn)), TRUE, <<>>, found)
    ELSE IF StartsWith(s, RedOff)
    THEN MarkedFrom(Drop(s, Len(RedOff)), FALSE, <<>>, Append(found, segment))
    ELSE MarkedFrom(Tail(s), inside,
                    IF inside THEN Append(segment, Head(s)) ELSE segment, found)

MarkedSegments(s) == MarkedFrom(s, FALSE, <<>>, <<>>)

\* ASCII folding as the matcher's contract states it.
FoldByte(b) == IF 65 <= b /\ b <= 90 THEN b + 32 ELSE b
Fold(s, fold) == IF fold THEN [i \in 1..Len(s) |-> FoldByte(s[i])] ELSE s

(***************************************************************************)
(* C1. A scan without invert_match prints exactly the lines with at least  *)
(* one span, a scan with invert_match exactly the lines with none, each    *)
(* once and in file order.                                                 *)
(***************************************************************************)
EmitsExactlySelected ==
    Scanning =>
        /\ Len(stdout) = Len(emitted)
        /\ \A i \in 1..Len(files_to_search) :
               EmittedPositions(i) = Selected(i, LinesScanned(i))
        /\ \A j, m \in 1..Len(emitted) :
               (j < m /\ emitted[j].file = emitted[m].file)
                   => emitted[j].position < emitted[m].position

\* An inverted scan is over that printed one line of a file and skipped one.
EmitsExactlySelectedWitness ==
    /\ pc = "done"
    /\ file_idx > 0
    /\ config.invert_match
    /\ \E i \in 1..Len(files_to_search) :
           /\ EmittedPositions(i) # {}
           /\ \E k \in 1..ReadableLines(NodeOf(i)) : k \notin EmittedPositions(i)

(***************************************************************************)
(* C2. For a non-empty pattern the spans find_matches_in_line returns lie  *)
(* within the line, start one after another and do not overlap.            *)
(***************************************************************************)
SpansOrdered ==
    (ret.done /\ call.fn = "find_matches_in_line" /\ call.search_pattern # <<>>)
        => /\ \A i \in 1..Len(ret.value) :
                  /\ 0 <= ret.value[i][1]
                  /\ ret.value[i][1] <= ret.value[i][2]
                  /\ ret.value[i][2] <= Len(call.line_text)
           /\ \A i \in 1..(Len(ret.value) - 1) :
                  /\ ret.value[i][2] <= ret.value[i + 1][1]
                  /\ ret.value[i][1] < ret.value[i + 1][1]

\* A case-insensitive call returned three spans.
SpansOrderedWitness ==
    /\ ret.done
    /\ call.fn = "find_matches_in_line"
    /\ call.ignore_case
    /\ Len(ret.value) >= 3

\* What C3 says of the text and of the whole printed line of line k of the
\* i-th file.
PrintedText(i, k) ==
    IF config.colored_output /\ SpansOf(i, k) # <<>>
    THEN colorize_hits(LineOf(i, k), SpansOf(i, k))
    ELSE LineOf(i, k)

PrintedAs(i, k) ==
    LET path == files_to_search[i]
        number == Decimal(k)
        text == PrintedText(i, k)
    IN  CASE config.print_filenames /\ config.line_numbers
                 -> path \o <<58, 32>> \o number \o <<58, 32>> \o text
          [] config.print_filenames /\ ~config.line_numbers
                 -> path \o <<58, 32>> \o text
          [] ~config.print_filenames /\ config.line_numbers
                 -> number \o <<58, 32>> \o text
          [] ~config.print_filenames /\ ~config.line_numbers
                 -> text

(***************************************************************************)
(* C3. A printed line is "<path>: <number>: <text>" with print_filenames   *)
(* and line_numbers, "<path>: <text>" with print_filenames alone,          *)
(* "<number>: <text>" with line_numbers alone, else "<text>"; <text> is    *)
(* the highlighted line when colored_output is set and the line has a      *)
(* span, the raw line otherwise, so always the raw line under invert_match.*)
(***************************************************************************)
PrefixByToggles ==
    Scanning =>
        /\ Len(stdout) = Len(emitted)
        /\ \A j \in 1..Len(emitted) :
               /\ stdout[j] = PrintedAs(emitted[j].file, emitted[j].position)
               /\ config.invert_match
                      => PrintedText(emitted[j].file, emitted[j].position)
                             = LineOf(emitted[j].file, emitted[j].position)

\* With -f, -n and -c a line with a span was printed, highlighted.
PrefixByTogglesWitness ==
    /\ Scanning
    /\ config.print_filenames
    /\ config.line_numbers
    /\ config.colored_output
    /\ \E j \in 1..Len(emitted) :
           /\ SpansOf(emitted[j].file, emitted[j].position) # <<>>
           /\ emitted[j].position > 1
           /\ stdout[j] # LineOf(emitted[j].file, emitted[j].position)

ReadFailureStopsOnlyThatFile ==
    Scanning =>
        \A i \in 1..Len(files_to_search) :
            FailsAtLine(NodeOf(i)) =>
                LET k == FirstFailure(NodeOf(i).content)
                IN  /\ \A p \in EmittedPositions(i) : p < k
                    /\ i < file_idx => EmittedPositions(i) = Selected(i, k - 1)
                    /\ pc = "done" =>
                           /\ LoopOver
                           /\ \A m \in (i + 1)..Len(files_to_search) :
                                  EmittedPositions(m)
                                      = Selected(m, ReadableLines(NodeOf(m)))

\* The run is over; the first file failed at its line 2 after its line 1 was
\* printed, and a line of the second file was printed after that.
ReadFailureStopsOnlyThatFileWitness ==
    /\ pc = "done"
    /\ Len(files_to_search) = 2
    /\ FailsAtLine(NodeOf(1))
    /\ FirstFailure(NodeOf(1).content) = 2
    /\ EmittedPositions(1) = {1}
    /\ EmittedPositions(2) # {}

(***************************************************************************)
(* C6. With -h or --help anywhere in the arguments, or no pattern token,   *)
(* or a pattern and no file token, the run ends before a path is resolved  *)
(* or a file opened, and prints the usage text and nothing else.           *)
(***************************************************************************)
UsageOnAnyArgumentError ==
    (AsksHelp(args) \/ Len(Positionals(args)) < 2)
        => /\ pc \in {"parse", "done"}
           /\ files_to_search = <<>>
           /\ file_idx = 0
           /\ reader = <<>>
           /\ emitted = <<>>
           /\ stdout = IF pc = "done" THEN <<UsageText>> ELSE <<>>

\* A run ended on a --help or -h that came after a pattern and a file.
UsageOnAnyArgumentErrorWitness ==
    /\ pc = "done"
    /\ Len(args) >= 3
    /\ args[Len(args)] \in {FlagH, FlagHelp}
    /\ Len(Positionals(args)) >= 2
    /\ stdout = <<UsageText>>

(***************************************************************************)
(* C7, as amended. Whenever parse_arguments returns a Config, its pattern  *)
(* is the first token that is no flag, which may be the empty string, its  *)
(* files are the tokens that are no flags after it, and there is at least  *)
(* one file.                                                               *)
(***************************************************************************)
ConfigHoldsPatternAndFiles ==
    Scanning =>
        /\ Positionals(args) # <<>>
        /\ config.pattern = Head(Positionals(args))
        /\ config.files = Tail(Positionals(args))
        /\ Len(config.files) >= 1

\* A Config with the empty string as its pattern was handed on.
ConfigHoldsPatternAndFilesWitness ==
    /\ pc = "collect"
    /\ config.pattern = <<>>
    /\ Len(config.files) >= 2

\* C7, as claimed: whenever parse_arguments returns a Config, its pattern is
\* a non-empty string and it has at least one file.
ConfigPatternNonEmpty ==
    Scanning => (config.pattern # <<>> /\ Len(config.files) >= 1)

(***************************************************************************)
(* C8, as amended. For a file whose scan ends with an error (the open      *)
(* fails, or the read of a line fails), the output holds no message about  *)
(* it and no line of it at or after the failing line, the lines printed    *)
(* before the failure stay, and main goes on to the next file.             *)
(***************************************************************************)
FailedFilePrintsNothingMore ==
    Scanning =>
        /\ \A j \in 1..Len(stdout) :
               /\ j <= Len(emitted)
               /\ NodeOf(emitted[j].file).openable
               /\ emitted[j].position
                      < FirstFailure(NodeOf(emitted[j].file).content)
               /\ EndsWith(StripMarkers(stdout[j]),
                           LineOf(emitted[j].file, emitted[j].position))
        /\ \A i \in 1..Len(files_to_search) :
               (FailsToOpen(NodeOf(i)) \/ FailsAtLine(NodeOf(i))) =>
                   /\ i < file_idx
                          => EmittedPositions(i)
                                 = Selected(i, ReadableLines(NodeOf(i)))
                   /\ pc = "done" => LoopOver

\* The run is over: the first file does not open, and of the second the
\* line before its failing line is in the output.
FailedFilePrintsNothingMoreWitness ==
    /\ pc = "done"
    /\ Len(files_to_search) = 2
    /\ FailsToOpen(NodeOf(1))
    /\ FailsAtLine(NodeOf(2))
    /\ EmittedPositions(2) # {}

\* C8, as claimed: the output of the run holds no line of a file whose scan
\* ended with an error.
FailedFileSkippedEntirely ==
    (Scanning /\ pc = "done") =>
        \A i \in 1..Len(files_to_search) :
            (FailsToOpen(NodeOf(i)) \/ FailsAtLine(NodeOf(i)))
                => EmittedPositions(i) = {}

\* The bytes of line at offsets p.. are those of pattern.
WindowMatches(line, pattern, p) ==
    /\ p + Len(pattern) <= Len(line)
    /\ \A i \in 1..Len(pattern) : line[p + i] = pattern[i]

(***************************************************************************)
(* C9. find_matches_in_line returns the leftmost-first greedy matches: no  *)
(* span for an empty pattern or one longer than the line; otherwise, with  *)
(* both folded when ignore_case is set, an offset p is the start of a span *)
(* exactly when the window at p equals the pattern and p lies inside no    *)
(* earlier span; every span is as long as the pattern, and spans come in   *)
(* the order of their starts.                                              *)
(***************************************************************************)
MatchesAreGreedy ==
    (ret.done /\ call.fn = "find_matches_in_line") =>
        LET line == Fold(call.line_text, call.ignore_case)
            pattern == Fold(call.search_pattern, call.ignore_case)
            spans == ret.value
            starts == {spans[i][1] : i \in 1..Len(spans)}
            inside_earlier(p) ==
                \E i \in 1..Len(spans) : spans[i][1] < p /\ p < spans[i][2]
        IN  IF pattern = <<>> \/ Len(pattern) > Len(line)
            THEN spans = <<>>
            ELSE /\ \A p \in 0..(Len(line) - Len(pattern)) :
                        p \in starts
                            <=> (WindowMatches(line, pattern, p)
                                 /\ ~inside_earlier(p))
                 /\ starts \subseteq 0..(Len(line) - Len(pattern))
                 /\ \A i \in 1..Len(spans) :
                        spans[i][2] - spans[i][1] = Len(pattern)
                 /\ \A i \in 1..(Len(spans) - 1) : spans[i][1] < spans[i + 1][1]

\* "aaaa" searched for "aa" returned [(0,2), (2,4)].
MatchesAreGreedyWitness ==
    /\ ret.done
    /\ call.fn = "find_matches_in_line"
    /\ call.line_text = <<97, 97, 97, 97>>
    /\ call.search_pattern = <<97, 97>>
    /\ ret.value = << <<0, 2>>, <<2, 4>> >>

\* The line number printed in output line j: the digits before the ": " that
\* follows the path prefix, if any.
PrintedNumberIs(j, number) ==
    LET path == files_to_search[emitted[j].file]
        after_path == IF config.print_filenames
                      THEN Drop(stdout[j], Len(path) + 2)
                      ELSE stdout[j]
    IN  StartsWith(after_path, number \o <<58, 32>>)

(***************************************************************************)
(* C10. The number of a printed line is its 1-based position in its own    *)
(* file, lines not printed counted, from 1 in each file; the output is in  *)
(* the order of (file, line number), one file after the other.             *)
(***************************************************************************)
LineNumbersArePositions ==
    Scanning =>
        /\ pc = "lines" =>
               current_line_number = Len(NodeOf(file_idx).content) - Len(reader)
        /\ Len(stdout) = Len(emitted)
        /\ \A j \in 1..Len(emitted) :
               /\ emitted[j].file <= file_idx
               /\ emitted[j].position \in 1..Len(NodeOf(emitted[j].file).content)
               /\ config.line_numbers
                      => PrintedNumberIs(j, Decimal(emitted[j].position))
        /\ \A j \in 1..(Len(emitted) - 1) :
               \/ emitted[j].file < emitted[j + 1].file
               \/ /\ emitted[j].file = emitted[j + 1].file
                  /\ emitted[j].position < emitted[j + 1].position

\* With -n, line 2 of the second file was printed after a line of the first
\* file, and line 1 of the second file was not printed.
LineNumbersArePositionsWitness ==
    /\ Scanning
    /\ config.line_numbers
    /\ \E j \in 1..(Len(emitted) - 1) :
           /\ emitted[j].file = 1
           /\ emitted[j + 1].file = 2
           /\ emitted[j + 1].position = 2

====
